---- MODULE Spec2Model ----
(***************************************************************************)
(* Model of backend/flowpilot/stash.go: the flow state stash, a JSON       *)
(* document holding the state history ("_.state_history") and the queue of *)
(* scheduled states ("_.scheduled_states") next to arbitrary user data.    *)
(* The document store (package jsonmanager) is modelled from its           *)
(* description: path get/set/delete with append index -1, and              *)
(* serialization of the whole document to and from a string.               *)
(***************************************************************************)
EXTENDS Integers, Sequences, FiniteSets, TLC

(* ------------------------------ bounds --------------------------------- *)
MaxHist == 2
MaxQueue == 3

StateNames == {"A", "B"}
UnscheduledNames == {"X"}
Counts == {0, 2}
UserValues == {"x"}

(* ------------------------- pointers and errors ------------------------- *)
\* *StateName / *int64: nil or a value
NilS == [nil |-> TRUE, v |-> ""]
NilI == [nil |-> TRUE, v |-> 0]
Ptr(x) == [nil |-> FALSE, v |-> x]

\* error values: nil, errors.New(msg), a store error, fmt.Errorf(ctx + ": %w", storeErr)
ErrNil == [nil |-> TRUE, msg |-> "", store |-> FALSE, wrapped |-> FALSE]
ErrNew(m) == [nil |-> FALSE, msg |-> m, store |-> FALSE, wrapped |-> FALSE]
ErrStore == [nil |-> FALSE, msg |-> "store", store |-> TRUE, wrapped |-> FALSE]
ErrWrap(ctx) == [nil |-> FALSE, msg |-> ctx, store |-> TRUE, wrapped |-> TRUE]

(* ------------------------------ document ------------------------------- *)
\* One element of "_.state_history": a JSON object with optional members
\* "s", "n", "u", or a value that is not an object.
Item(hasS, s, hasU, u, hasN, n) ==
    [obj |-> TRUE, hasS |-> hasS, s |-> s, hasU |-> hasU, u |-> u, hasN |-> hasN, n |-> n]
NonObjectItem ==
    [obj |-> FALSE, hasS |-> FALSE, s |-> "", hasU |-> FALSE, u |-> "", hasN |-> FALSE, n |-> 0]

\* jsonmanager.NewJSONManager(): the document "{}"
NewJSONManager ==
    [historySet |-> FALSE, history |-> <<>>,
     scheduledKind |-> "absent", scheduled |-> <<>>,
     user |-> NilS]

\* Get("_.state_history.#").Int()
HistoryCount(d) == Len(d.history)

\* Get("_.state_history.<i>"), i counted from 0: the element and whether it Exists();
\* a result that does not exist is no object
HistoryItemGet(d, i) ==
    IF i >= 0 /\ i < Len(d.history)
    THEN [exists |-> TRUE, item |-> d.history[i + 1]]
    ELSE [exists |-> FALSE, item |-> NonObjectItem]

\* Set("_.state_history.-1", item): append, creating the array when missing
SetHistoryAppend(d, item) ==
    [d EXCEPT !.historySet = TRUE, !.history = Append(d.history, item)]

\* Delete("_.state_history.-1"): drop the last element; nothing to drop is no change
DeleteHistoryLast(d) ==
    IF Len(d.history) = 0 THEN d
    ELSE [d EXCEPT !.history = SubSeq(d.history, 1, Len(d.history) - 1)]

\* whether Delete("_.state_history.-1") returns an error when the store is failing:
\* deleting from an already-empty history is a no-op success
DeleteHistoryLastFails(d, fail) == fail /\ Len(d.history) > 0

\* Get("_.scheduled_states").Array(): the elements, none for a missing or null value
ScheduledArray(d) == IF d.scheduledKind = "array" THEN d.scheduled ELSE <<>>

\* Set("_.scheduled_states", slice): a nil slice is written as null
SetScheduled(d, stack, isNil) ==
    [d EXCEPT !.scheduledKind = IF isNil THEN "null" ELSE "array",
              !.scheduled = IF isNil THEN <<>> ELSE stack]

\* Set("user", v): a write outside the reserved namespace
SetUserData(d, v) == [d EXCEPT !.user = Ptr(v)]

(* ------------------------------ stash.go ------------------------------- *)
NewStash == NewJSONManager

GetResult(sn, usn, n, err) ==
    [stateName |-> sn, unscheduledStateName |-> usn, numOfScheduledStates |-> n, err |-> err]

\* !lastHistoryItem.Exists()
itemMissing_unchecked(r) == FALSE
itemMissing(r) == ~r.exists

\* !lastHistoryItem.IsObject()
itemNotObject(r) == ~r.item.obj

\* !lastHistoryItem.Get("s").Exists()
itemLacksState_unchecked(r) == FALSE
itemLacksState(r) == ~r.item.hasS

getLastStateFromHistory(d) ==
    LET lastItemPosition == HistoryCount(d) - 1
        lastHistoryItem == HistoryItemGet(d, lastItemPosition)
    IN  IF itemMissing(lastHistoryItem)
        THEN GetResult(NilS, NilS, NilI, ErrNil)
        ELSE IF itemNotObject(lastHistoryItem)
        THEN GetResult(NilS, NilS, NilI, ErrNew("last history item is not an object"))
        ELSE IF itemLacksState(lastHistoryItem)
        THEN GetResult(NilS, NilS, NilI,
                       ErrNew("last history item is missing a value for 'state'"))
        ELSE GetResult(Ptr(lastHistoryItem.item.s),
                       IF lastHistoryItem.item.hasU THEN Ptr(lastHistoryItem.item.u) ELSE NilS,
                       IF lastHistoryItem.item.hasN THEN Ptr(lastHistoryItem.item.n) ELSE NilI,
                       ErrNil)

MutResult(d, err) == [doc |-> d, err |-> err]

\* lastStateName != nil && *lastStateName == stateName
sameAsLast_never(lastStateName, stateName) == FALSE
sameAsLast(lastStateName, stateName) == ~lastStateName.nil /\ lastStateName.v = stateName

\* numOfScheduledStates != nil && *numOfScheduledStates > 0
countGiven_zeroToo(numOfScheduledStates) ==
    ~numOfScheduledStates.nil /\ numOfScheduledStates.v >= 0
countGiven(numOfScheduledStates) ==
    ~numOfScheduledStates.nil /\ numOfScheduledStates.v > 0

\* failAt names the store write that fails: "none", "s", "n", "u" or "history"
addStateToHistory_overwrites(d, stateName, unscheduledStateName, numOfScheduledStates, failAt) ==
    LET last == getLastStateFromHistory(d)
        setN == countGiven(numOfScheduledStates)
        setU == ~unscheduledStateName.nil
        historyItem == Item(TRUE, stateName,
                            setU, IF setU THEN unscheduledStateName.v ELSE "",
                            setN, IF setN THEN numOfScheduledStates.v ELSE 0)
    IN  IF ~last.err.nil THEN MutResult(d, last.err)
        ELSE IF failAt # "none" THEN MutResult(d, ErrWrap("failed to update stashed history"))
        ELSE IF sameAsLast(last.stateName, stateName)
        THEN MutResult(SetHistoryAppend(DeleteHistoryLast(d), historyItem), ErrNil)
        ELSE MutResult(SetHistoryAppend(d, historyItem), ErrNil)
addStateToHistory_writesFirst(d, stateName, unscheduledStateName, numOfScheduledStates, failAt) ==
    LET last == getLastStateFromHistory(d)
        setN == countGiven(numOfScheduledStates)
        setU == ~unscheduledStateName.nil
        historyItem == Item(TRUE, stateName,
                            setU, IF setU THEN unscheduledStateName.v ELSE "",
                            setN, IF setN THEN numOfScheduledStates.v ELSE 0)
        partial == SetHistoryAppend(d, Item(TRUE, stateName, FALSE, "", FALSE, 0))
    IN  IF ~last.err.nil THEN MutResult(d, last.err)
        ELSE IF sameAsLast(last.stateName, stateName) THEN MutResult(d, ErrNil)
        ELSE IF failAt \in {"s", "history"}
        THEN MutResult(d, ErrWrap("failed to update stashed history"))
        ELSE IF setN /\ failAt = "n"
        THEN MutResult(partial, ErrWrap("failed to set num_of_scheduled_states"))
        ELSE IF setU /\ failAt = "u"
        THEN MutResult(partial, ErrWrap("failed to set unscheduled_state"))
        ELSE MutResult(SetHistoryAppend(d, historyItem), ErrNil)
addStateToHistory(d, stateName, unscheduledStateName, numOfScheduledStates, failAt) ==
    LET last == getLastStateFromHistory(d)
        setN == countGiven(numOfScheduledStates)
        setU == ~unscheduledStateName.nil
        historyItem == Item(TRUE, stateName,
                            setU, IF setU THEN unscheduledStateName.v ELSE "",
                            setN, IF setN THEN numOfScheduledStates.v ELSE 0)
    IN  IF ~last.err.nil THEN MutResult(d, last.err)
        ELSE IF sameAsLast(last.stateName, stateName) THEN MutResult(d, ErrNil)
        ELSE IF failAt = "s" THEN MutResult(d, ErrWrap("failed to set state"))
        ELSE IF setN /\ failAt = "n"
        THEN MutResult(d, ErrWrap("failed to set num_of_scheduled_states"))
        ELSE IF setU /\ failAt = "u"
        THEN MutResult(d, ErrWrap("failed to set unscheduled_state"))
        ELSE IF failAt = "history"
        THEN MutResult(d, ErrWrap("failed to update stashed history"))
        ELSE MutResult(SetHistoryAppend(d, historyItem), ErrNil)

removeLastStateFromHistory_first(d, fail) ==
    IF DeleteHistoryLastFails(d, fail) THEN MutResult(d, ErrStore)
    ELSE MutResult([d EXCEPT !.history = IF Len(d.history) = 0 THEN <<>> ELSE Tail(d.history)],
                   ErrNil)
removeLastStateFromHistory_rejectsEmpty(d, fail) ==
    IF DeleteHistoryLastFails(d, fail) \/ HistoryCount(d) = 0 THEN MutResult(d, ErrStore)
    ELSE MutResult(DeleteHistoryLast(d), ErrNil)
removeLastStateFromHistory(d, fail) ==
    IF DeleteHistoryLastFails(d, fail) THEN MutResult(d, ErrStore)
    ELSE MutResult(DeleteHistoryLast(d), ErrNil)

\* append(scheduledStateNames, newStack...)
prepend_appends(scheduledStateNames, newStack) == newStack \o scheduledStateNames
prepend(scheduledStateNames, newStack) == scheduledStateNames \o newStack

\* append returns its first argument, nil for an empty argument list, when nothing is added
addScheduledStates_wrongPath(d, scheduledStateNames, fail) ==
    LET stack == ScheduledArray(d)
        newStack == prepend(scheduledStateNames, stack)
    IN  IF fail THEN MutResult(d, ErrWrap("failed to set scheduled_states"))
        ELSE MutResult([d EXCEPT !.historySet = TRUE,
                                 !.history = [i \in 1..Len(newStack) |-> NonObjectItem]],
                       ErrNil)
addScheduledStates(d, scheduledStateNames, fail) ==
    LET stack == ScheduledArray(d)
        newStack == prepend(scheduledStateNames, stack)
    IN  IF fail THEN MutResult(d, ErrWrap("failed to set scheduled_states"))
        ELSE MutResult(SetScheduled(d, newStack,
                                    Len(scheduledStateNames) = 0 /\ Len(stack) = 0),
                       ErrNil)

PopResult(d, sn, err) == [doc |-> d, stateName |-> sn, err |-> err]

removeLastScheduledState_tail(d, fail) ==
    LET stack == ScheduledArray(d)
    IN  IF Len(stack) = 0 THEN PopResult(d, NilS, ErrNil)
        ELSE PopResult(SetScheduled(d, SubSeq(stack, 1, Len(stack) - 1), FALSE),
                       Ptr(stack[Len(stack)]), ErrNil)
removeLastScheduledState_writesEmpty(d, fail) ==
    LET stack == ScheduledArray(d)
    IN  IF Len(stack) = 0 THEN PopResult(SetScheduled(d, <<>>, FALSE), NilS, ErrNil)
        ELSE PopResult(SetScheduled(d, SubSeq(stack, 2, Len(stack)), FALSE),
                       Ptr(stack[1]), ErrNil)
removeLastScheduledState_keepsQueue(d, fail) ==
    LET stack == ScheduledArray(d)
    IN  IF Len(stack) = 0 THEN PopResult(d, NilS, ErrNil)
        ELSE PopResult(SetScheduled(d, stack, FALSE), Ptr(stack[1]), ErrNil)
removeLastScheduledState(d, fail) ==
    LET stack == ScheduledArray(d)
    IN  IF Len(stack) = 0 THEN PopResult(d, NilS, ErrNil)
        ELSE LET nextStateName == stack[1]
                 newStack == SubSeq(stack, 2, Len(stack))
             IN  IF fail
                 THEN PopResult(d, NilS,
                        ErrWrap("failed to stash scheduled states while ending the sub-flow"))
                 ELSE PopResult(SetScheduled(d, newStack, FALSE), Ptr(nextStateName), ErrNil)

(* --------------------- serialization (jsonmanager) --------------------- *)
\* The document as a string: a sequence of JSON tokens.
Tok(k, s, n) == [k |-> k, s |-> s, n |-> n]
TStr(s) == Tok("str", s, 0)
TNum(n) == Tok("num", "", n)
TP(k) == Tok(k, "", 0)

RECURSIVE Join(_)
\* the token sequences of parts, separated by commas
Join(parts) ==
    IF Len(parts) = 0 THEN <<>>
    ELSE IF Len(parts) = 1 THEN parts[1]
    ELSE parts[1] \o <<TP(",")>> \o Join(Tail(parts))

Member(key, valueToks) == <<TStr(key), TP(":")>> \o valueToks

SerItem(it) ==
    IF ~it.obj THEN <<TStr("junk")>>
    ELSE <<TP("{")>>
         \o Join((IF it.hasS THEN << Member("s", <<TStr(it.s)>>) >> ELSE <<>>)
                 \o (IF it.hasN THEN << Member("n", <<TNum(it.n)>>) >> ELSE <<>>)
                 \o (IF it.hasU THEN << Member("u", <<TStr(it.u)>>) >> ELSE <<>>))
         \o <<TP("}")>>

SerHistory(d) ==
    <<TP("[")>> \o Join([i \in 1..Len(d.history) |-> SerItem(d.history[i])]) \o <<TP("]")>>

SerScheduled(d) ==
    IF d.scheduledKind = "null" THEN <<TP("null")>>
    ELSE <<TP("[")>> \o Join([i \in 1..Len(d.scheduled) |-> <<TStr(d.scheduled[i])>>])
         \o <<TP("]")>>

SerNamespace(d) ==
    <<TP("{")>>
    \o Join((IF d.historySet THEN << Member("state_history", SerHistory(d)) >> ELSE <<>>)
            \o (IF d.scheduledKind # "absent"
                THEN << Member("scheduled_states", SerScheduled(d)) >> ELSE <<>>))
    \o <<TP("}")>>

\* JSONManager.String()
String(d) ==
    <<TP("{")>>
    \o Join((IF d.historySet \/ d.scheduledKind # "absent"
             THEN << Member("_", SerNamespace(d)) >> ELSE <<>>)
            \o (IF ~d.user.nil THEN << Member("user", <<TStr(d.user.v)>>) >> ELSE <<>>))
    \o <<TP("}")>>

\* parsed JSON values
JVal(t, s, n, keys, kids) == [t |-> t, s |-> s, n |-> n, keys |-> keys, kids |-> kids]
JNone == JVal("none", "", 0, <<>>, <<>>)
JNull == JVal("null", "", 0, <<>>, <<>>)
JStr(s) == JVal("str", s, 0, <<>>, <<>>)
JNum(n) == JVal("num", "", n, <<>>, <<>>)
JArr(kids) == JVal("arr", "", 0, <<>>, kids)
JObj(keys, kids) == JVal("obj", "", 0, keys, kids)

RECURSIVE ParseValue(_, _), ParseElems(_, _, _), ParseMembers(_, _, _, _)
\* the value that starts at token i, and the position after it
ParseValue(toks, i) ==
    LET t == toks[i]
    IN  IF t.k = "str" THEN [v |-> JStr(t.s), next |-> i + 1]
        ELSE IF t.k = "num" THEN [v |-> JNum(t.n), next |-> i + 1]
        ELSE IF t.k = "null" THEN [v |-> JNull, next |-> i + 1]
        ELSE IF t.k = "[" THEN ParseElems(toks, i + 1, <<>>)
        ELSE ParseMembers(toks, i + 1, <<>>, <<>>)

ParseElems(toks, i, acc) ==
    IF toks[i].k = "]" THEN [v |-> JArr(acc), next |-> i + 1]
    ELSE LET r == ParseValue(toks, i)
         IN  IF toks[r.next].k = ","
             THEN ParseElems(toks, r.next + 1, Append(acc, r.v))
             ELSE [v |-> JArr(Append(acc, r.v)), next |-> r.next + 1]

ParseMembers(toks, i, keys, kids) ==
    IF toks[i].k = "}" THEN [v |-> JObj(keys, kids), next |-> i + 1]
    ELSE LET r == ParseValue(toks, i + 2)
         IN  IF toks[r.next].k = ","
             THEN ParseMembers(toks, r.next + 1, Append(keys, toks[i].s), Append(kids, r.v))
             ELSE [v |-> JObj(Append(keys, toks[i].s), Append(kids, r.v)), next |-> r.next + 1]

\* Get(key) on a parsed value: the member of an object, nothing otherwise
JGet(v, key) ==
    IF v.t = "obj" /\ \E i \in 1..Len(v.keys) : v.keys[i] = key
    THEN v.kids[CHOOSE i \in 1..Len(v.keys) : v.keys[i] = key]
    ELSE JNone

DecodeItem(v) ==
    IF v.t # "obj" THEN NonObjectItem
    ELSE Item(JGet(v, "s").t # "none", JGet(v, "s").s,
              JGet(v, "u").t # "none", JGet(v, "u").s,
              JGet(v, "n").t # "none", JGet(v, "n").n)

\* jsonmanager.NewJSONManagerFromString(data), data a well-formed document
NewJSONManagerFromString(data) ==
    LET root == ParseValue(data, 1).v
        hist == JGet(JGet(root, "_"), "state_history")
        sched == JGet(JGet(root, "_"), "scheduled_states")
        user == JGet(root, "user")
    IN  [historySet |-> hist.t = "arr",
         history |-> [i \in 1..Len(hist.kids) |-> DecodeItem(hist.kids[i])],
         scheduledKind |-> IF sched.t = "arr" THEN "array"
                           ELSE IF sched.t = "null" THEN "null" ELSE "absent",
         scheduled |-> [i \in 1..Len(sched.kids) |-> sched.kids[i].s],
         user |-> IF user.t = "str" THEN Ptr(user.s) ELSE NilS]

\* stash.go NewStashFromString: the stash over the parsed document
NewStashFromString_empty(data) == NewJSONManager
NewStashFromString(data) == NewJSONManagerFromString(data)

(* ------------------------------- actions ------------------------------- *)
\* doc: the stash document; pc: "ready" for the next call, or "returned" while the
\* caller holds the result of the last call; prev, call, ret: the document before
\* that call, the call and its arguments, and what it returned.
VARIABLES doc, pc, prev, call, ret

vars == <<doc, pc, prev, call, ret>>

Call(op, sn, usn, n, names) ==
    [op |-> op, stateName |-> sn, unscheduledStateName |-> usn,
     numOfScheduledStates |-> n, scheduledStateNames |-> names]

NoResult == GetResult(NilS, NilS, NilI, ErrNil)

UnscheduledArgs == {NilS} \cup {Ptr(x) : x \in UnscheduledNames}
CountArgs == {NilI} \cup {Ptr(n) : n \in Counts}
FailPoints == {"none", "s", "n", "u", "history"}
\* argument lists of addScheduledStates: none, one or two names
Batches == {<<>>} \cup {<<a>> : a \in StateNames} \cup {<<a, b>> : a, b \in StateNames}

Init ==
    /\ doc = NewStash
    /\ pc = "ready"
    /\ prev = NewStash
    /\ call = Call("none", "", NilS, NilI, <<>>)
    /\ ret = NoResult

AddStateToHistory ==
    \E sn \in StateNames, usn \in UnscheduledArgs, n \in CountArgs, failAt \in FailPoints :
        LET r == addStateToHistory(doc, sn, usn, n, failAt)
        IN  /\ pc = "ready"
            /\ Len(r.doc.history) <= MaxHist
            /\ pc' = "returned"
            /\ doc' = r.doc
            /\ prev' = doc
            /\ call' = Call("addStateToHistory", sn, usn, n, <<>>)
            /\ ret' = GetResult(NilS, NilS, NilI, r.err)

RemoveLastStateFromHistory ==
    \E fail \in BOOLEAN :
        LET r == removeLastStateFromHistory(doc, fail)
        IN  /\ pc = "ready"
            /\ pc' = "returned"
            /\ doc' = r.doc
            /\ prev' = doc
            /\ call' = Call("removeLastStateFromHistory", "", NilS, NilI, <<>>)
            /\ ret' = GetResult(NilS, NilS, NilI, r.err)

GetLastStateFromHistory ==
    /\ pc = "ready"
    /\ pc' = "returned"
    /\ doc' = doc
    /\ prev' = doc
    /\ call' = Call("getLastStateFromHistory", "", NilS, NilI, <<>>)
    /\ ret' = getLastStateFromHistory(doc)

AddScheduledStates ==
    \E names \in Batches, fail \in BOOLEAN :
        LET r == addScheduledStates(doc, names, fail)
        IN  /\ pc = "ready"
            /\ Len(ScheduledArray(r.doc)) <= MaxQueue
            /\ pc' = "returned"
            /\ doc' = r.doc
            /\ prev' = doc
            /\ call' = Call("addScheduledStates", "", NilS, NilI, names)
            /\ ret' = GetResult(NilS, NilS, NilI, r.err)

RemoveLastScheduledState ==
    \E fail \in BOOLEAN :
        LET r == removeLastScheduledState(doc, fail)
        IN  /\ pc = "ready"
            /\ pc' = "returned"
            /\ doc' = r.doc
            /\ prev' = doc
            /\ call' = Call("removeLastScheduledState", "", NilS, NilI, <<>>)
            /\ ret' = GetResult(r.stateName, NilS, NilI, r.err)

\* the embedded JSONManager: a write of user data by the owning engine
SetUser ==
    \E v \in UserValues :
        /\ pc = "ready"
        /\ pc' = "returned"
        /\ doc' = SetUserData(doc, v)
        /\ prev' = doc
        /\ call' = Call("Set", "", NilS, NilI, <<>>)
        /\ ret' = NoResult

\* one request cycle of the engine: serialize the stash, rebuild it from the string
Reload ==
    /\ pc = "ready"
    /\ pc' = "returned"
    /\ doc' = NewStashFromString(String(doc))
    /\ prev' = doc
    /\ call' = Call("NewStashFromString", "", NilS, NilI, <<>>)
    /\ ret' = NoResult

\* the caller takes the result; the stash is ready for the next call
Return ==
    /\ pc = "returned"
    /\ pc' = "ready"
    /\ doc' = doc
    /\ prev' = doc
    /\ call' = Call("none", "", NilS, NilI, <<>>)
    /\ ret' = NoResult

Next ==
    \/ AddStateToHistory
    \/ RemoveLastStateFromHistory
    \/ GetLastStateFromHistory
    \/ AddScheduledStates
    \/ RemoveLastScheduledState
    \/ SetUser
    \/ Reload
    \/ Return

Spec == Init /\ [][Next]_vars

\* A stash rebuilt from a transported string that this program did not necessarily
\* write: the history may end in an element that is no object or has no "s".
LoadedItems ==
    {NonObjectItem,
     Item(FALSE, "", TRUE, "X", FALSE, 0),
     Item(FALSE, "", FALSE, "", TRUE, 2),
     Item(TRUE, "A", FALSE, "", FALSE, 0),
     Item(TRUE, "B", TRUE, "X", TRUE, 2)}
LoadedHistories == UNION {[1..k -> LoadedItems] : k \in 0..MaxHist}
LoadedStrings ==
    {String([NewJSONManager EXCEPT !.historySet = TRUE, !.history = h]) : h \in LoadedHistories}

InitLoaded ==
    /\ \E data \in LoadedStrings : doc = NewStashFromString(data)
    /\ pc = "ready"
    /\ prev = doc
    /\ call = Call("none", "", NilS, NilI, <<>>)
    /\ ret = NoResult

SpecLoaded == InitLoaded /\ [][Next]_vars

(* ------------------------------ properties ----------------------------- *)
Returned(op) == pc = "returned" /\ call.op = op

Tail1(h) == h[Len(h)]
WellFormed(it) == it.obj /\ it.hasS

RECURSIVE Drain(_)
\* the states that repeated removeLastScheduledState calls return until it returns nil
Drain(d) ==
    LET r == removeLastScheduledState(d, FALSE)
    IN  IF r.stateName.nil THEN <<>> ELSE <<r.stateName.v>> \o Drain(r.doc)

\* C1: a successful addScheduledStates(N...) leaves the queue equal to N followed by
\* the previous queue, N in the order given and the previous queue in its order.
C1_PrependsBatch ==
    (Returned("addScheduledStates") /\ ret.err.nil)
        => ScheduledArray(doc) = call.scheduledStateNames \o ScheduledArray(prev)

C1_Witness ==
    /\ Returned("addScheduledStates") /\ ret.err.nil
    /\ Len(call.scheduledStateNames) = 2
    /\ call.scheduledStateNames[1] # call.scheduledStateNames[2]
    /\ Len(ScheduledArray(prev)) >= 1
    /\ ScheduledArray(prev)[1] # call.scheduledStateNames[2]

\* C2: on a non-empty queue, removeLastScheduledState (when its write succeeds) returns
\* the head element and leaves the previous queue without its first element.
C2_PopsHead ==
    (Returned("removeLastScheduledState") /\ Len(ScheduledArray(prev)) > 0 /\ ret.err.nil)
        => /\ ret.stateName = Ptr(Head(ScheduledArray(prev)))
           /\ ScheduledArray(doc) = Tail(ScheduledArray(prev))

C2_Witness ==
    /\ Returned("removeLastScheduledState") /\ ret.err.nil
    /\ Len(ScheduledArray(prev)) = 3
    /\ ScheduledArray(prev)[1] # ScheduledArray(prev)[3]
    /\ ScheduledArray(prev)[2] # ScheduledArray(prev)[3]

\* C3: addStateToHistory(S, ...) on a history whose tail records S returns no error and
\* leaves the history (its length and tail included) as it was.
C3_ReentryIsNoOp ==
    (/\ Returned("addStateToHistory")
     /\ Len(prev.history) > 0
     /\ WellFormed(Tail1(prev.history))
     /\ Tail1(prev.history).s = call.stateName)
        => /\ ret.err.nil
           /\ doc.history = prev.history

C3_Witness ==
    /\ Returned("addStateToHistory")
    /\ Len(prev.history) = 1
    /\ prev.history[1].s = call.stateName
    /\ ~prev.history[1].hasU /\ ~call.unscheduledStateName.nil
    /\ Len(doc.history) = 1

\* C4: no two adjacent history entries have the same state.
C4_NoAdjacentRepeat ==
    \A i \in 1..(Len(doc.history) - 1) : doc.history[i].s # doc.history[i + 1].s

C4_Witness ==
    /\ Returned("addStateToHistory")
    /\ Len(prev.history) = 2
    /\ Tail1(prev.history).s = call.stateName
    /\ Len(doc.history) = 2

\* C5: a successful addStateToHistory(S, u, n) on a history that is empty or whose tail
\* state is not S makes the history one entry longer, and getLastStateFromHistory then
\* returns (S, u, n', nil) with n' = n when n was given and n > 0, nil otherwise.
C5_AppendThenReadBack ==
    (/\ Returned("addStateToHistory") /\ ret.err.nil
     /\ (Len(prev.history) = 0 \/ Tail1(prev.history).s # call.stateName))
        => /\ Len(doc.history) = Len(prev.history) + 1
           /\ getLastStateFromHistory(doc) =
                GetResult(Ptr(call.stateName),
                          call.unscheduledStateName,
                          IF ~call.numOfScheduledStates.nil /\ call.numOfScheduledStates.v > 0
                          THEN call.numOfScheduledStates ELSE NilI,
                          ErrNil)

C5_Witness ==
    /\ Returned("addStateToHistory") /\ ret.err.nil
    /\ Len(prev.history) = 1 /\ prev.history[1].s # call.stateName
    /\ call.numOfScheduledStates = Ptr(0)
    /\ call.unscheduledStateName = Ptr("X")
    /\ Len(doc.history) = 2

\* C6: on a history with at least one entry, a successful removeLastStateFromHistory
\* deletes the tail entry and nothing else; getLastStateFromHistory then returns the
\* fields of the entry that was second-to-last, or all nil if there was one entry.
C6_RemovesTailOnly ==
    (Returned("removeLastStateFromHistory") /\ Len(prev.history) >= 1 /\ ret.err.nil)
        => /\ doc = [prev EXCEPT !.history = SubSeq(prev.history, 1, Len(prev.history) - 1)]
           /\ getLastStateFromHistory(doc) =
                IF Len(prev.history) = 1 THEN GetResult(NilS, NilS, NilI, ErrNil)
                ELSE LET e == prev.history[Len(prev.history) - 1]
                     IN  GetResult(Ptr(e.s),
                                   IF e.hasU THEN Ptr(e.u) ELSE NilS,
                                   IF e.hasN THEN Ptr(e.n) ELSE NilI,
                                   ErrNil)

C6_Witness ==
    /\ Returned("removeLastStateFromHistory") /\ ret.err.nil
    /\ Len(prev.history) = 2
    /\ prev.history[1].hasU /\ prev.history[1].hasN
    /\ ~prev.history[2].hasU
    /\ Len(doc.history) = 1

\* C7: on an empty history getLastStateFromHistory returns (nil, nil, nil) and a nil error.
C7_EmptyHistoryReadsNil ==
    (Returned("getLastStateFromHistory") /\ Len(doc.history) = 0)
        => ret = GetResult(NilS, NilS, NilI, ErrNil)

C7_Witness ==
    /\ Returned("getLastStateFromHistory")
    /\ doc.historySet /\ Len(doc.history) = 0
    /\ ret.stateName.nil /\ ret.err.nil

\* C8: on an empty or absent queue removeLastScheduledState returns (nil, nil) and leaves
\* the whole document as it was.
C8_EmptyQueuePopsNothing ==
    (Returned("removeLastScheduledState") /\ Len(ScheduledArray(prev)) = 0)
        => /\ ret.stateName.nil /\ ret.err.nil
           /\ doc = prev

C8_Witness ==
    /\ Returned("removeLastScheduledState")
    /\ prev.scheduledKind = "absent"
    /\ Len(prev.history) > 0 /\ ~prev.user.nil
    /\ ret.stateName.nil

\* C9: a stash rebuilt from the serialized string of a stash gives the same result for
\* getLastStateFromHistory and the same sequence of states when its queue is drained.
C9_RoundTrip ==
    Returned("NewStashFromString")
        => /\ getLastStateFromHistory(doc) = getLastStateFromHistory(prev)
           /\ Drain(doc) = Drain(prev)

C9_Witness ==
    /\ Returned("NewStashFromString")
    /\ Len(prev.history) = 2
    /\ Tail1(prev.history).hasU /\ Tail1(prev.history).hasN
    /\ Len(ScheduledArray(prev)) = 3
    /\ ScheduledArray(prev)[1] # ScheduledArray(prev)[2]
    /\ Len(Drain(doc)) = 3

\* C10: when the history tail exists but is no object or lacks "s",
\* getLastStateFromHistory returns an error and three nil values, addStateToHistory
\* returns that error, and both leave the document as it was.
MalformedTail(d) == Len(d.history) > 0 /\ ~WellFormed(Tail1(d.history))

C10_MalformedTailSurfaces ==
    /\ (Returned("getLastStateFromHistory") /\ MalformedTail(prev))
          => /\ ~ret.err.nil
             /\ ret.stateName.nil /\ ret.unscheduledStateName.nil
             /\ ret.numOfScheduledStates.nil
             /\ doc = prev
    /\ (Returned("addStateToHistory") /\ MalformedTail(prev))
          => /\ ~ret.err.nil
             /\ ret.err = getLastStateFromHistory(prev).err
             /\ ~ret.err.store
             /\ doc = prev

C10_Witness ==
    /\ Returned("addStateToHistory")
    /\ Len(prev.history) = 2
    /\ Tail1(prev.history).obj /\ ~Tail1(prev.history).hasS /\ Tail1(prev.history).hasU
    /\ ~ret.err.nil

\* C11 (as stated): the queue is first-in-first-out: states are returned in the order in
\* which they were added, so after a successful addScheduledStates(N...) the states still
\* to be returned are those pending before, then N.
C11_ReturnedInOrderAdded ==
    (Returned("addScheduledStates") /\ ret.err.nil)
        => Drain(doc) = Drain(prev) \o call.scheduledStateNames

\* C11 (amended): the states of one call are returned in the order given, and ahead of
\* every state that was already queued: after a successful addScheduledStates(N...) the
\* states still to be returned are N, then those pending before.
C11_LatestBatchReturnedFirst ==
    (Returned("addScheduledStates") /\ ret.err.nil)
        => Drain(doc) = call.scheduledStateNames \o Drain(prev)

C11_Witness ==
    /\ Returned("addScheduledStates") /\ ret.err.nil
    /\ Len(call.scheduledStateNames) = 1
    /\ Len(Drain(prev)) = 2
    /\ Drain(prev)[1] # call.scheduledStateNames[1]
    /\ Drain(doc)[1] = call.scheduledStateNames[1]

Mutators ==
    {"addStateToHistory", "removeLastStateFromHistory",
     "addScheduledStates", "removeLastScheduledState"}

\* C13: when a mutating operation returns an error, the document (history, queue and user
\* data) is what it was before the call.
C13_ErrorLeavesDocument ==
    (pc = "returned" /\ call.op \in Mutators /\ ~ret.err.nil) => doc = prev

C13_Witness ==
    /\ Returned("addStateToHistory")
    /\ ret.err = ErrWrap("failed to set unscheduled_state")
    /\ Len(prev.history) = 1 /\ Len(ScheduledArray(prev)) > 0 /\ ~prev.user.nil
    /\ doc = prev

\* C14: every history entry has a state, and an entry that carries a scheduledCount
\* carries one greater than zero.
C14_EntriesWellFormed ==
    \A i \in 1..Len(doc.history) :
        /\ doc.history[i].obj /\ doc.history[i].hasS
        /\ doc.history[i].hasN => doc.history[i].n > 0

C14_Witness ==
    /\ Returned("addStateToHistory") /\ ret.err.nil
    /\ call.numOfScheduledStates = Ptr(0)
    /\ Len(prev.history) = 0 /\ Len(doc.history) = 1
    /\ ~doc.history[1].hasN

\* C15: an error returned by a mutating operation because a set or delete on the document
\* failed wraps the store's error with the operation's context.
C15_StoreErrorsWrapped ==
    (pc = "returned" /\ call.op \in Mutators /\ ret.err.store) => ret.err.wrapped

RECURSIVE DrainSteps(_, _)
\* n calls of removeLastScheduledState in a row: the document after them and the states
\* they returned
DrainSteps(d, n) ==
    IF n = 0 THEN [doc |-> d, out |-> <<>>]
    ELSE LET r == removeLastScheduledState(d, FALSE)
             rest == DrainSteps(r.doc, n - 1)
         IN  [doc |-> rest.doc,
              out |-> (IF r.stateName.nil THEN <<>> ELSE <<r.stateName.v>>) \o rest.out]

\* C16: each successful removeLastScheduledState on a non-empty queue shortens it by one;
\* from a queue of length k, k calls in a row each return a state and leave the queue
\* empty, and the call after them returns (nil, nil) with the queue still empty.
C16_DrainReachesEmpty ==
    /\ (Returned("removeLastScheduledState") /\ ret.err.nil /\ Len(ScheduledArray(prev)) > 0)
          => Len(ScheduledArray(doc)) = Len(ScheduledArray(prev)) - 1
    /\ LET k == Len(ScheduledArray(doc))
           r == DrainSteps(doc, k)
           more == removeLastScheduledState(r.doc, FALSE)
       IN  /\ Len(r.out) = k
           /\ ScheduledArray(r.doc) = <<>>
           /\ more.stateName.nil /\ more.err.nil
           /\ ScheduledArray(more.doc) = <<>>

C16_Witness ==
    /\ Returned("removeLastScheduledState") /\ ret.err.nil
    /\ Len(ScheduledArray(prev)) = 1
    /\ ~ret.stateName.nil
    /\ doc.scheduledKind = "array" /\ doc.scheduled = <<>>

\* C17: addStateToHistory and removeLastStateFromHistory leave the queue and the user data
\* as they were, addScheduledStates and removeLastScheduledState leave the history and
\* the user data as they were, and getLastStateFromHistory changes nothing.
C17_RegionsIndependent ==
    /\ (pc = "returned" /\ call.op \in {"addStateToHistory", "removeLastStateFromHistory"})
          => /\ doc.scheduledKind = prev.scheduledKind
             /\ doc.scheduled = prev.scheduled
             /\ doc.user = prev.user
    /\ (pc = "returned" /\ call.op \in {"addScheduledStates", "removeLastScheduledState"})
          => /\ doc.historySet = prev.historySet
             /\ doc.history = prev.history
             /\ doc.user = prev.user
    /\ Returned("getLastStateFromHistory") => doc = prev

C17_Witness ==
    /\ Returned("addScheduledStates") /\ ret.err.nil
    /\ Len(call.scheduledStateNames) = 2
    /\ Len(prev.history) = 2 /\ ~prev.user.nil
    /\ doc.history = prev.history /\ doc.scheduled # prev.scheduled

\* C18: a successful addStateToHistory(S, u, n) followed at once by
\* removeLastStateFromHistory gives back the history H it started from when H is empty or
\* its tail state is not S, and H without its last entry when the tail state is S.
C18_AddThenRemove ==
    (Returned("addStateToHistory") /\ ret.err.nil)
        => LET r == removeLastStateFromHistory(doc, FALSE)
           IN  /\ r.err.nil
               /\ r.doc.history =
                     IF Len(prev.history) = 0 \/ Tail1(prev.history).s # call.stateName
                     THEN prev.history
                     ELSE SubSeq(prev.history, 1, Len(prev.history) - 1)

C18_Witness ==
    /\ Returned("addStateToHistory") /\ ret.err.nil
    /\ Len(prev.history) = 1 /\ prev.history[1].s # call.stateName
    /\ call.unscheduledStateName.nil /\ call.numOfScheduledStates = Ptr(2)
    /\ Len(doc.history) = 2
    /\ removeLastStateFromHistory(doc, FALSE).doc.history = prev.history

\* C19: when the tail state equals the state given to addStateToHistory, the given
\* unscheduledState and scheduledCount are dropped: the tail entry keeps the ones it had.
C19_ReentryKeepsMetadata ==
    (/\ Returned("addStateToHistory")
     /\ Len(prev.history) > 0
     /\ WellFormed(Tail1(prev.history))
     /\ Tail1(prev.history).s = call.stateName)
        => /\ Len(doc.history) = Len(prev.history)
           /\ Tail1(doc.history) = Tail1(prev.history)
           /\ getLastStateFromHistory(doc) = getLastStateFromHistory(prev)

C19_Witness ==
    /\ Returned("addStateToHistory")
    /\ Len(prev.history) = 2
    /\ Tail1(prev.history).s = call.stateName
    /\ Tail1(prev.history).hasU /\ call.unscheduledStateName.nil
    /\ Tail1(prev.history).hasN /\ call.numOfScheduledStates = Ptr(0)
    /\ Tail1(doc.history).hasU /\ Tail1(doc.history).n = 2

====
